---- MODULE Spec2Model ----
(***************************************************************************)
(* A model of the Mandelbrot renderer (src/src/main.rs, mandelbrot.rs).    *)
(*                                                                         *)
(* Two specifications share the module:                                    *)
(*   Spec      the parallel render of main(): dispatch loop, thread pool,  *)
(*             result channel, collector, save, report, return and exit;   *)
(*   SpecEval  the pure functions (in_mandelbrot_set, the colour policies, *)
(*             the pixel-to-plane mapping) applied to inputs drawn from    *)
(*             bounded sets.                                               *)
(*                                                                         *)
(* Numbers.  The program computes in f32.  Complex points are drawn from   *)
(* the Gaussian integers and viewports are restricted to those whose pixel *)
(* pitch radius/width is an integer, so every f32 operation of the mapping *)
(* and of the orbit is exact and integer arithmetic is the f32 arithmetic. *)
(* The escape ratio i/budget is not exact: it is modelled as a correctly   *)
(* rounded (round-to-nearest-even) f32 value, a pair m,e meaning m*2^(-e). *)
(***************************************************************************)
EXTENDS Integers, Sequences, FiniteSets, TLC

(***************************************************************************)
(* Bounds of the model.                                                    *)
(***************************************************************************)
MaxPixels == 5         \* images of at most MaxPixels pixels (width * height)
MaxThreads == 2        \* pool sizes 1..MaxThreads
MaxIterations == 2     \* iteration budgets of a render, 1..MaxIterations
MaxBudget == 10        \* iteration budgets of a probed point, 1..MaxBudget
MaxRatioBudget == 260  \* budgets of a probed ratio i/b, 1..MaxRatioBudget
GridRadius == 3        \* probed points re,im in -GridRadius..GridRadius
\* width * height is a u32 product: it wraps at 2^32.  The modulus is scaled
\* down so that a product of modelled dimensions can wrap.
U32Modulus == 4

\* -r/--radius and -c/--center values (f32, exact): <<r, center>>
Views == {<<4, <<0, 0>>>>, <<6, <<1, -3>>>>}

(***************************************************************************)
(* f32 arithmetic on the escape ratio.                                     *)
(***************************************************************************)
RECURSIVE Pow2(_)
Pow2(n) == IF n = 0 THEN 1 ELSE 2 * Pow2(n - 1)

RECURSIVE BitLen(_)
BitLen(n) == IF n = 0 THEN 0 ELSE 1 + BitLen(n \div 2)

F32Zero == [m |-> 0, e |-> 0]

\* Round-to-nearest-even of q + rem/den (0 <= rem < den) to an integer.
RoundNearestEven(q, rem, den) ==
    IF 2 * rem > den THEN q + 1
    ELSE IF 2 * rem < den THEN q
    ELSE q + (q % 2)

RECURSIVE NormShift(_, _, _)
\* Least k with i * 2^k >= b (0 < i < b).
NormShift(i, b, k) == IF i >= b THEN k ELSE NormShift(2 * i, b, k + 1)

RECURSIVE DivBits(_, _, _, _)
\* n more quotient bits of rem/b by shift and subtract.
DivBits(q, rem, b, n) ==
    IF n = 0 THEN <<q, rem>>
    ELSE IF 2 * rem >= b THEN DivBits(2 * q + 1, 2 * rem - b, b, n - 1)
    ELSE DivBits(2 * q, 2 * rem, b, n - 1)

\* `i as f32 / b as f32` for integers 0 <= i < b < 2^24 (the casts are exact):
\* the quotient rounded to a 24-bit significand.
F32Div(i, b) ==
    IF i = 0 THEN F32Zero
    ELSE LET k == NormShift(i, b, 0)
             qr == DivBits(1, i * Pow2(k) - b, b, 23)
         IN [m |-> RoundNearestEven(qr[1], qr[2], b), e |-> k + 23]

\* `x * k` for an f32 x and an integer constant 0 < k < 2^24: the 48-bit
\* product, computed in 12-bit limbs, rounded to a 24-bit significand.
F32Mul(x, k) ==
    IF x.m = 0 THEN F32Zero
    ELSE LET a1 == x.m \div 4096
             a0 == x.m % 4096
             b1 == k \div 4096
             b0 == k % 4096
             mid == a1 * b0 + a0 * b1
             losum == a0 * b0 + (mid % 4096) * 4096
             lo == losum % 16777216
             hi == a1 * b1 + (mid \div 4096) + (losum \div 16777216)
             d == BitLen(hi)
         IN IF d = 0 THEN [m |-> lo, e |-> x.e]
            ELSE [m |-> RoundNearestEven(hi * Pow2(24 - d) + (lo \div Pow2(d)),
                                         lo % Pow2(d), Pow2(d)),
                  e |-> x.e - d]

\* `x as u8` / `x as u32` of a non-negative f32: truncation toward zero.
F32Trunc(x) == IF x.e >= 0 THEN x.m \div Pow2(x.e) ELSE x.m * Pow2(0 - x.e)

(***************************************************************************)
(* The escape evaluator and the colour policies.                           *)
(***************************************************************************)
Black == <<0, 0, 0>>

\* z^2 + c on complex numbers <<re, im>>
mandelbrot(z, c) ==
    <<z[1] * z[1] - z[2] * z[2] + c[1], z[1] * z[2] + z[2] * z[1] + c[2]>>

\* Fault variant of the bailout test: >= in place of >.
EscapeTest_ge(z) == z[1] * z[1] + z[2] * z[2] >= 4

\* the bailout test: re^2 + im^2 > 4.0
EscapeTest(z) == z[1] * z[1] + z[2] * z[2] > 4

RECURSIVE in_set_loop(_, _, _, _)
\* The for loop from iteration i on.  `calls` counts the calls of
\* mandelbrot() the loop has made (instrumentation).
in_set_loop(z, c, i, iterations) ==
    IF i >= iterations
    THEN [in_set |-> TRUE, taken |-> iterations, calls |-> i]
    ELSE IF EscapeTest(z)
         THEN [in_set |-> FALSE, taken |-> i, calls |-> i]
         ELSE in_set_loop(mandelbrot(z, c), c, i + 1, iterations)

in_mandelbrot_set(c, iterations) == in_set_loop(c, c, 0, iterations)

\* Fault variant of get_greyscale_pixel: the level rounded to nearest.
get_greyscale_pixel_round(ratio) ==
    LET p == F32Mul(ratio, 255)
        level == IF p.e > 0 THEN (p.m + Pow2(p.e - 1)) \div Pow2(p.e)
                 ELSE F32Trunc(p)
    IN <<level, level, level>>

get_greyscale_pixel(ratio) ==
    LET level == F32Trunc(F32Mul(ratio, 255)) IN <<level, level, level>>

get_color_pixel(ratio) ==
    LET color_value == F32Trunc(F32Mul(ratio, 16777215))
    IN <<(color_value \div 65536) % 256,
         (color_value \div 256) % 256,
         color_value % 256>>

\* The else branch of get_mandelbrot_color: the colour of a point that
\* escaped after iterations_taken of iterations.
escaped_color(iterations_taken, iterations, color) ==
    IF color THEN get_color_pixel(F32Div(iterations_taken, iterations))
    ELSE get_greyscale_pixel(F32Div(iterations_taken, iterations))

\* Fault variant of get_mandelbrot_color: in-set points white.
get_mandelbrot_color_white(c, iterations, color) ==
    LET res == in_mandelbrot_set(c, iterations)
    IN IF res.in_set THEN <<255, 255, 255>>
       ELSE escaped_color(res.taken, iterations, color)

get_mandelbrot_color(c, iterations, color) ==
    LET res == in_mandelbrot_set(c, iterations)
    IN IF res.in_set THEN Black
       ELSE escaped_color(res.taken, iterations, color)

\* The point of the plane of pixel (x, y): the closure's Complex::new(...).
\* Exact when r is a multiple of 2, of width and of height.
PlanePoint(x, y, w, h, r, center) ==
    <<((x * r) \div w - r \div 2) + center[1],
      (0 - ((y * r) \div h - r \div 2)) + center[2]>>

ExactViewport(w, h, r) ==
    /\ r % 2 = 0
    /\ w > 0 => r % w = 0
    /\ h > 0 => r % h = 0

(***************************************************************************)
(* The state of a run of main().                                           *)
(***************************************************************************)
VARIABLES
    width, height,    \* -s/--size, parsed as u32
    r, center,        \* -r/--radius, -c/--center
    iterations,       \* -i/--iterations
    color,            \* -c/--color
    num_threads,      \* -t/--threads
    pc,               \* main's position
    x, y,             \* the dispatch loops' counters
    jobs,             \* the pool's queue of closures, each its captured <<x, y>>
    running,          \* the jobs the pool's threads are running, at most
                      \* num_threads of them
    chan,             \* the mpsc channel: points sent and not yet received
    rx_alive,         \* the Receiver has not been dropped
    imgbuf,           \* the ImageBuffer
    limit,            \* (width * height) as usize, the take() bound
    count,            \* points the collector has consumed
    sent,             \* per coordinate: successful tx.send calls (history)
    writes,           \* per coordinate: put_pixel calls (history)
    send_failed,      \* some tx.send returned Err (history)
    outfile,          \* the output file: "none", "image" or "damaged"
    saved_image,      \* the buffer handed to save()
    save_result,      \* what save() returned: "none", "ok", "err"
    printed_saved,    \* "=> Output image saved as ..." was printed
    exit_code,        \* the process's exit status, -1 while it runs
    probe, answer     \* SpecEval: an input of a pure function and its result

config == <<width, height, r, center, iterations, color, num_threads>>
pool == <<jobs, running>>
sink == <<outfile, saved_image, save_result, printed_saved>>
eval == <<probe, answer>>
vars == <<config, pc, x, y, pool, chan, rx_alive, imgbuf, limit, count,
          sent, writes, send_failed, sink, exit_code, eval>>

None == [kind |-> "none"]

Coords == (0..(width - 1)) \X (0..(height - 1))

\* The colour the closure computes for pixel p (lines 138-146).
PixelColor(p) ==
    get_mandelbrot_color(PlanePoint(p[1], p[2], width, height, r, center),
                         iterations, color)

MandelbrotPoint(p) == [x |-> p[1], y |-> p[2], color |-> PixelColor(p)]

RenderInit ==
    /\ width \in 0..MaxPixels
    /\ height \in 0..MaxPixels
    /\ width * height <= MaxPixels
    /\ \E view \in Views : r = view[1] /\ center = view[2]
    /\ ExactViewport(width, height, r)
    /\ iterations \in 1..MaxIterations
    /\ color \in BOOLEAN
    /\ num_threads \in 1..MaxThreads
    /\ pc = "dispatch"
    /\ x = 0
    /\ y = 0
    /\ jobs = <<>>
    /\ running = {}
    /\ chan = <<>>
    /\ rx_alive = TRUE
    /\ imgbuf = [p \in Coords |-> Black]
    /\ limit = 0
    /\ count = 0
    /\ sent = [p \in Coords |-> 0]
    /\ writes = [p \in Coords |-> 0]
    /\ send_failed = FALSE
    /\ outfile = "none"
    /\ saved_image = None
    /\ save_result = "none"
    /\ printed_saved = FALSE
    /\ exit_code = -1

Init == RenderInit /\ probe = None /\ answer = None

(***************************************************************************)
(* main(): the dispatch loops.                                             *)
(***************************************************************************)
\* One pool.execute(closure) of the nested for loops.
Dispatch ==
    /\ pc = "dispatch"
    /\ x < width
    /\ y < height
    /\ jobs' = Append(jobs, <<x, y>>)
    /\ IF y + 1 < height
       THEN y' = y + 1 /\ x' = x
       ELSE y' = 0 /\ x' = x + 1
    /\ UNCHANGED <<config, pc, running, chan, rx_alive, imgbuf, limit, count,
                   sent, writes, send_failed, sink, exit_code, eval>>

\* The loops are over; `width * height` is evaluated for the progress bar and
\* for take().  A product that does not fit in a u32 panics in a build with
\* overflow checks (debug) and wraps in one without (release).
CountPoints ==
    /\ pc = "dispatch"
    /\ x >= width \/ height = 0
    /\ \/ /\ width * height >= U32Modulus
          /\ pc' = "unwind"
          /\ limit' = limit
       \/ /\ pc' = "collect"
          /\ limit' = (width * height) % U32Modulus
    /\ UNCHANGED <<config, x, y, pool, chan, rx_alive, imgbuf, count,
                   sent, writes, send_failed, sink, exit_code, eval>>

(***************************************************************************)
(* The pool's threads.                                                     *)
(***************************************************************************)
\* A free pool thread takes the next closure off the queue.
TakeJob ==
    /\ pc # "exited"
    /\ Cardinality(running) < num_threads
    /\ jobs # <<>>
    /\ running' = running \cup {Head(jobs)}
    /\ jobs' = Tail(jobs)
    /\ UNCHANGED <<config, pc, x, y, chan, rx_alive, imgbuf, limit, count,
                   sent, writes, send_failed, sink, exit_code, eval>>

\* The closure: compute the point and tx.send(point).expect("Could not send").
\* send fails exactly when the Receiver is gone; expect then panics the pool
\* thread, which the pool replaces.
RunJob(p) ==
    /\ pc # "exited"
    /\ p \in running
    /\ \/ /\ rx_alive
          /\ chan' = Append(chan, MandelbrotPoint(p))
          /\ sent' = [sent EXCEPT ![p] = @ + 1]
          /\ send_failed' = send_failed
       \/ /\ ~rx_alive
          /\ send_failed' = TRUE
          /\ UNCHANGED <<chan, sent>>
    /\ running' = running \ {p}
    /\ UNCHANGED <<config, pc, x, y, jobs, rx_alive, imgbuf, limit, count,
                   writes, sink, exit_code, eval>>

WorkerStep == TakeJob \/ \E p \in Coords : RunJob(p)

(***************************************************************************)
(* main(): the collector.                                                  *)
(***************************************************************************)
\* Fault variant of the collector's test: every point is written.
ShouldPut_always(point) == TRUE

\* if point.color != image::Rgb([0, 0, 0])
ShouldPut(point) == point.color # Black

\* One item of rx.iter().take(limit): blocks while the channel is empty.
Collect ==
    /\ pc = "collect"
    /\ count < limit
    /\ chan # <<>>
    /\ LET point == Head(chan)
           p == <<point.x, point.y>>
       IN IF ShouldPut(point)
          THEN /\ imgbuf' = [imgbuf EXCEPT ![p] = point.color]
               /\ writes' = [writes EXCEPT ![p] = @ + 1]
          ELSE UNCHANGED <<imgbuf, writes>>
    /\ chan' = Tail(chan)
    /\ count' = count + 1
    /\ UNCHANGED <<config, pc, x, y, pool, rx_alive, limit, sent,
                   send_failed, sink, exit_code, eval>>

\* take() is exhausted: on to the save.
CollectDone ==
    /\ pc = "collect"
    /\ count >= limit
    /\ pc' = "save"
    /\ UNCHANGED <<config, x, y, pool, chan, rx_alive, imgbuf, limit, count,
                   sent, writes, send_failed, sink, exit_code, eval>>

(***************************************************************************)
(* main(): save, report, return.                                           *)
(***************************************************************************)
\* File::create(..).unwrap() panics on failure; the Result of save() is
\* discarded (`let _ =`).
Save ==
    /\ pc = "save"
    /\ \/ /\ pc' = "unwind"
          /\ UNCHANGED sink
       \/ /\ pc' = "report"
          /\ outfile' = "image"
          /\ saved_image' = imgbuf
          /\ save_result' = "ok"
          /\ UNCHANGED printed_saved
       \/ /\ pc' = "report"
          /\ outfile' = "damaged"
          /\ saved_image' = imgbuf
          /\ save_result' = "err"
          /\ UNCHANGED printed_saved
    /\ UNCHANGED <<config, x, y, pool, chan, rx_alive, imgbuf, limit, count,
                   sent, writes, send_failed, exit_code, eval>>

\* if verbose { println!("=> Output image saved as ...") }
\* The flag is read here only (the progress bar is not modelled), so its
\* value is drawn where it is read.
Report ==
    /\ pc = "report"
    /\ \E verbose \in BOOLEAN : printed_saved' = verbose
    /\ pc' = "return"
    /\ UNCHANGED <<config, x, y, pool, chan, rx_alive, imgbuf, limit, count,
                   sent, writes, send_failed, outfile, saved_image,
                   save_result, exit_code, eval>>

\* main returns, or unwinds after a panic: its locals are dropped, the
\* Receiver among them.  The pool's threads are not joined.
DropLocals ==
    /\ pc \in {"return", "unwind"}
    /\ rx_alive' = FALSE
    /\ exit_code' = IF pc = "unwind" THEN 101 ELSE 0
    /\ pc' = "exit"
    /\ UNCHANGED <<config, x, y, pool, chan, imgbuf, limit, count,
                   sent, writes, send_failed, sink, eval>>

\* The process ends and takes the pool's threads with it.
Exit ==
    /\ pc = "exit"
    /\ pc' = "exited"
    /\ UNCHANGED <<config, x, y, pool, chan, rx_alive, imgbuf, limit, count,
                   sent, writes, send_failed, sink, exit_code, eval>>

Next ==
    \/ Dispatch
    \/ CountPoints
    \/ WorkerStep
    \/ Collect
    \/ CollectDone
    \/ Save
    \/ Report
    \/ DropLocals
    \/ Exit

Spec == Init /\ [][Next]_vars

(***************************************************************************)
(* SpecEval: the pure functions on probed inputs.                          *)
(***************************************************************************)
Grid == (-GridRadius..GridRadius) \X (-GridRadius..GridRadius)

\* A point of the plane, a budget and a colour mode for get_mandelbrot_color.
PointProbes ==
    [kind : {"point"}, c : Grid, budget : 1..MaxBudget, color : BOOLEAN]

\* An escape after `taken` of `budget` iterations, for the colour policies.
RatioProbes ==
    {q \in [kind : {"ratio"}, taken : 0..(MaxRatioBudget - 1),
            budget : 1..MaxRatioBudget, color : BOOLEAN] : q.taken < q.budget}

\* A pixel of a small viewport, for the closure's mapping and colouring.
PixelProbes ==
    {q \in [kind : {"pixel"}, x : 0..1, y : 0..1, width : 1..2, height : 1..2,
            view : Views, budget : 1..MaxBudget, color : BOOLEAN] :
        q.x < q.width /\ q.y < q.height}

EvalInit ==
    /\ probe \in PointProbes \cup RatioProbes \cup PixelProbes
    /\ answer = None
    /\ width = 0
    /\ height = 0
    /\ r = 4
    /\ center = <<0, 0>>
    /\ iterations = 1
    /\ color = FALSE
    /\ num_threads = 1
    /\ pc = "eval"
    /\ x = 0
    /\ y = 0
    /\ jobs = <<>>
    /\ running = {}
    /\ chan = <<>>
    /\ rx_alive = TRUE
    /\ imgbuf = <<>>
    /\ limit = 0
    /\ count = 0
    /\ sent = <<>>
    /\ writes = <<>>
    /\ send_failed = FALSE
    /\ outfile = "none"
    /\ saved_image = None
    /\ save_result = "none"
    /\ printed_saved = FALSE
    /\ exit_code = -1

render == <<config, pc, x, y, pool, chan, rx_alive, imgbuf, limit, count,
            sent, writes, send_failed, sink, exit_code>>

EvaluatePoint ==
    /\ probe.kind = "point"
    /\ answer = None
    /\ answer' = [kind |-> "point",
                  result |-> in_mandelbrot_set(probe.c, probe.budget),
                  pixel |-> get_mandelbrot_color(probe.c, probe.budget,
                                                 probe.color)]
    /\ UNCHANGED <<probe, render>>

ColorizeRatio ==
    /\ probe.kind = "ratio"
    /\ answer = None
    /\ answer' = [kind |-> "ratio",
                  pixel |-> escaped_color(probe.taken, probe.budget,
                                          probe.color)]
    /\ UNCHANGED <<probe, render>>

RenderPixel ==
    /\ probe.kind = "pixel"
    /\ answer = None
    /\ LET c == PlanePoint(probe.x, probe.y, probe.width, probe.height,
                           probe.view[1], probe.view[2])
       IN answer' = [kind |-> "pixel",
                     c |-> c,
                     result |-> in_mandelbrot_set(c, probe.budget),
                     pixel |-> get_mandelbrot_color(c, probe.budget,
                                                    probe.color)]
    /\ UNCHANGED <<probe, render>>

NextEval ==
    \/ EvaluatePoint
    \/ ColorizeRatio
    \/ RenderPixel

SpecEval == EvalInit /\ [][NextEval]_vars

(***************************************************************************)
(* Properties of the render (Spec).                                        *)
(***************************************************************************)
\* The image a render of this configuration is to produce.
ExpectedImage == [p \in Coords |-> PixelColor(p)]

Saved == save_result # "none"

\* C1: over a whole run every coordinate of [0,width) x [0,height) is sent
\* into the channel exactly once: never twice, and by the end of the run none
\* is missing.
C1_EveryPointSentOnce ==
    /\ \A p \in Coords : sent[p] <= 1
    /\ pc = "exited" => \A p \in Coords : sent[p] = 1

\* C2: the image is handed to save() only after the collector has consumed as
\* many points as work items were dispatched, width * height.
C2_SaveAfterAllCollected ==
    Saved => count = width * height

\* C3: whatever the interleaving and the pool size, the image handed to
\* save() holds at every coordinate the colour computed for that pixel.
C3_ImageIsPixelColors ==
    Saved => saved_image = ExpectedImage

\* C4: once a tx.send has failed, no image is written to the output file and
\* the run ends as a failure.
C4_SendFailureAborts ==
    send_failed =>
        /\ outfile = "none"
        /\ ~Saved
        /\ pc = "exited" => exit_code # 0

\* C5: after a failed save() of an image of positive size the program does
\* not print "Output image saved" and the run ends as a failure.
C5_SinkFaultReported ==
    (width > 0 /\ height > 0 /\ save_result = "err") =>
        /\ ~printed_saved
        /\ pc = "exited" => exit_code # 0

\* C9: the collector is never blocked with nothing left to arrive, and a run
\* ends only after the collector has received all width * height results.
C9_RenderCompletes ==
    /\ ~ (/\ pc = "collect"
          /\ count < limit
          /\ chan = <<>>
          /\ jobs = <<>>
          /\ running = {})
    /\ pc = "exited" => count = width * height

\* C10 as stated: when the collector has consumed all width * height points,
\* it has written every coordinate exactly once.
C10_EveryCoordinateWritten ==
    (pc = "save" /\ count = width * height) =>
        \A p \in Coords : writes[p] = 1

\* C10 as amended: no step of a pool thread changes the buffer; the buffer
\* starts black and changes only when the collector writes one coordinate that
\* has not been written before, with the colour of its pixel, which is not
\* black (so every coordinate is written at most once and a coordinate whose
\* colour is black is never written); and when the collector has consumed all
\* width * height points, the coordinates written are exactly those whose
\* colour is not black.
C10_WritesOnlyNonBlackOnce ==
    /\ \A p \in Coords : writes[p] = 0 /\ imgbuf[p] = Black
    /\ [][/\ WorkerStep => (imgbuf' = imgbuf /\ writes' = writes)
          /\ (imgbuf' # imgbuf \/ writes' # writes) =>
               /\ pc = "collect"
               /\ \E p \in Coords :
                    /\ writes[p] = 0
                    /\ PixelColor(p) # Black
                    /\ writes' = [writes EXCEPT ![p] = 1]
                    /\ imgbuf' = [imgbuf EXCEPT ![p] = PixelColor(p)]
          /\ (pc = "collect" /\ pc' = "save" /\ count = width * height) =>
               \A p \in Coords :
                   writes[p] = IF PixelColor(p) = Black THEN 0 ELSE 1
         ]_vars

\* A complete collection of an image with a written and an unwritten pixel.
C10_Witness ==
    /\ pc = "save"
    /\ count = width * height
    /\ \E p, q \in Coords :
         /\ writes[p] = 1
         /\ imgbuf[p] # Black
         /\ writes[q] = 0
         /\ PixelColor(q) = Black

(***************************************************************************)
(* Properties of the pure functions (SpecEval).                            *)
(***************************************************************************)
NormSq(z) == z[1] * z[1] + z[2] * z[2]

RECURSIVE Orbit(_, _)
\* z_0 = c, z_(n+1) = z_n^2 + c
Orbit(c, n) ==
    IF n = 0 THEN c
    ELSE LET z == Orbit(c, n - 1)
         IN <<z[1] * z[1] - z[2] * z[2] + c[1], 2 * z[1] * z[2] + c[2]>>

RECURSIVE FirstEscape(_, _, _)
\* The least i in [from, budget) with |z_i|^2 > 4, or budget if there is none.
FirstEscape(c, from, budget) ==
    IF from >= budget THEN budget
    ELSE IF NormSq(Orbit(c, from)) > 4 THEN from
    ELSE FirstEscape(c, from + 1, budget)

Evaluated == answer # None /\ answer.kind \in {"point", "pixel"}

ProbedPoint == IF probe.kind = "point" THEN probe.c ELSE answer.c

Grey(level) == <<level, level, level>>

\* C7: in_mandelbrot_set returns at the first i < budget with |z_i|^2 > 4,
\* escaped with iterations_survived = i and no further iteration; without such
\* an i it returns not escaped with iterations_survived = budget.
C7_ExitsAtFirstEscape ==
    Evaluated =>
        LET res == answer.result
            first == FirstEscape(ProbedPoint, 0, probe.budget)
        IN /\ res.taken = first
           /\ res.in_set = (first = probe.budget)
           /\ res.calls = first
           /\ res.taken <= probe.budget
           /\ res.in_set => res.taken = probe.budget
           /\ ~res.in_set => res.taken < probe.budget
           /\ (probe.budget = 1 /\ ~res.in_set) => res.taken = 0

\* An escape at iteration 2 of a budget that would have allowed more.
C7_Witness ==
    /\ Evaluated
    /\ probe.kind = "point"
    /\ probe.budget >= 4
    /\ ~answer.result.in_set
    /\ answer.result.taken = 2

\* C8 as stated: the grey level of an escape after i of b iterations is the
\* integer nearest to 255 * i / b.
C8_LevelIsNearest ==
    (answer # None /\ answer.kind = "ratio" /\ ~probe.color) =>
        answer.pixel =
            Grey((2 * 255 * probe.taken + probe.budget) \div (2 * probe.budget))

\* C8 as amended: the grey level of an escape after i of b iterations is
\* 255 * i / b truncated toward zero, on all three channels.
C8_LevelIsTruncated ==
    /\ (answer # None /\ answer.kind = "ratio" /\ ~probe.color) =>
          answer.pixel = Grey((255 * probe.taken) \div probe.budget)
    /\ (Evaluated /\ ~probe.color /\ ~answer.result.in_set) =>
          answer.pixel =
              Grey((255 * answer.result.taken) \div probe.budget)

\* 1 of 2 iterations: 127.5 is stored as 127.
C8_Witness ==
    /\ answer # None
    /\ answer.kind = "ratio"
    /\ ~probe.color
    /\ probe.taken = 1
    /\ probe.budget = 2
    /\ answer.pixel = Grey(127)

Scenario1 ==
    /\ probe.kind = "pixel"
    /\ probe.width = 2
    /\ probe.height = 2
    /\ probe.view = <<4, <<0, 0>>>>
    /\ probe.budget = 10
    /\ ~probe.color

\* C6 as stated: get_mandelbrot_color returns black for every point that did
\* not escape and a colour other than black for every point that escaped.
C6_BlackOnlyInSet ==
    Evaluated =>
        /\ answer.result.in_set => answer.pixel = Black
        /\ ~answer.result.in_set => answer.pixel # Black

\* C6 as amended: a point that did not escape is black; so is a point that
\* escaped at iteration 0, in both modes; an escape after i >= 1 of b
\* iterations is black in greyscale exactly when 255 * i < b and is never
\* black in colour; in the 2x2 scenario pixel (0,0) is the point -2+2i, which
\* escapes at iteration 0 and is black, and (1,0), the point 2i, is the only
\* pixel that is not black (level 25).
C6_BlackIffLevelZero ==
    /\ Evaluated =>
          /\ answer.result.in_set => answer.pixel = Black
          /\ (~answer.result.in_set /\ answer.result.taken = 0) =>
                answer.pixel = Black
          /\ (~answer.result.in_set /\ ~probe.color) =>
                (answer.pixel = Black <=>
                     255 * answer.result.taken < probe.budget)
          /\ (~answer.result.in_set /\ probe.color
                  /\ answer.result.taken >= 1) => answer.pixel # Black
    /\ (answer # None /\ answer.kind = "ratio") =>
          /\ probe.taken = 0 => answer.pixel = Black
          /\ ~probe.color =>
                (answer.pixel = Black <=> 255 * probe.taken < probe.budget)
          /\ (probe.color /\ probe.taken >= 1) => answer.pixel # Black
    /\ (answer # None /\ Scenario1) =>
          /\ answer.c = <<2 * probe.x - 2, 2 - 2 * probe.y>>
          /\ answer.pixel =
                IF probe.x = 1 /\ probe.y = 0 THEN Grey(25) ELSE Black
          /\ answer.result.in_set = (probe.y = 1)

\* Pixel (0,0) of the 2x2 scenario: outside the circle of radius 2, escaped,
\* and black.
C6_Witness ==
    /\ answer # None
    /\ Scenario1
    /\ probe.x = 0
    /\ probe.y = 0
    /\ answer.c = <<-2, 2>>
    /\ NormSq(answer.c) > 4
    /\ ~answer.result.in_set
    /\ answer.pixel = Black
====
